---- MODULE Spec2Model ----
(***************************************************************************)
(* MysqlAdapter (src/db/mysql-adapter.ts): a pooled MySQL adapter whose    *)
(* async methods init / all / run / exec / close are run by several        *)
(* logical callers on one adapter instance.  Every `await` of the source   *)
(* is a suspension point: the code between two awaits of one caller is one *)
(* atomic step, and steps of different callers interleave freely.          *)
(*                                                                         *)
(* The driver (mysql2) and the signer (@aws-sdk/rds-signer) are the        *)
(* environment: each pool.query / pool.execute / pool.end /                *)
(* signer.getAuthToken resolves or rejects nondeterministically.           *)
(***************************************************************************)
EXTENDS Integers, Sequences, FiniteSets, TLC

\* ------------------------------------------------------------------ bounds
NumCallers == 2      \* concurrent logical callers of the one adapter
MaxPools   == 2      \* pools mysql.createPool constructs before it only throws
MaxTokens  == 2      \* tokens the signer returns before it only rejects

Callers == 1..NumCallers

\* ------------------------------------------------------------------ state
VARIABLES
  awsIamAuth,   \* this.awsIamAuth
  awsRegion,    \* this.awsRegion ("" when the option is absent)
  config,       \* this.config: the fields the adapter reads (user, password)
  pool,         \* this.pool: 0 is null, p > 0 is the p-th constructed pool
  pools,        \* the pools constructed so far, in order of construction
  nTokens,      \* tokens the signer has returned so far
  sigInvoked,   \* signer.getAuthToken() has been called at least once
  closeDone,    \* some close() call has returned normally
  task,         \* per caller: the position and the locals of its async call
  returned,     \* the outcome the last step handed to a caller, if it did
  logged        \* whose catch of end() logged an error in the last step, if any

vars == <<awsIamAuth, awsRegion, config, pool, pools, nTokens, sigInvoked,
          closeDone, task, returned, logged>>

Null == 0

\* ------------------------------------------------------------ error texts
\* The characters of the messages String.prototype.includes is applied to.
Chars(str) ==
  CASE str = "Pool is closed." ->
       <<"P", "o", "o", "l", " ", "i", "s", " ", "c", "l", "o", "s", "e", "d", ".">>
    [] str = "PROTOCOL_CONNECTION_LOST" ->
       <<"P", "R", "O", "T", "O", "C", "O", "L", "_", "C", "O", "N", "N", "E", "C",
         "T", "I", "O", "N", "_", "L", "O", "S", "T">>
    [] str = "ER_PARSE_ERROR" ->
       <<"E", "R", "_", "P", "A", "R", "S", "E", "_", "E", "R", "R", "O", "R">>
    [] str = "connect ETIMEDOUT" ->
       <<"c", "o", "n", "n", "e", "c", "t", " ", "E", "T", "I", "M", "E", "D", "O",
         "U", "T">>
    [] str = "Cannot read properties of null" ->
       <<"C", "a", "n", "n", "o", "t", " ", "r", "e", "a", "d", " ", "p", "r", "o",
         "p", "e", "r", "t", "i", "e", "s", " ", "o", "f", " ", "n", "u", "l", "l">>
    [] str = "closed" ->
       <<"c", "l", "o", "s", "e", "d">>

\* String.prototype.includes: pat occurs in str as a contiguous substring.
Includes(str, pat) ==
  LET s == Chars(str)
      p == Chars(pat)
  IN  \E i \in 1..(Len(s) - Len(p) + 1) : SubSeq(s, i, i + Len(p) - 1) = p

\* Messages the driver rejects a statement with.
StatementErrors == {"Pool is closed.", "PROTOCOL_CONNECTION_LOST", "ER_PARSE_ERROR"}
\* Messages the driver rejects a liveness probe or pool.end() with.
DriverErrors == {"Pool is closed.", "connect ETIMEDOUT"}
\* TypeError of `this.pool!.execute(...)` / `this.pool!.query(...)` on null.
NullDeref == "Cannot read properties of null"
\* What mysql.createPool throws on a configuration it rejects.
CreatePoolError == "Invalid pool configuration"
\* What signer.getAuthToken() rejects with.
SignerError == "Could not load credentials"

\* An Error's message is kept as the sequence of the pieces it was built of.
NoMessage == << >>

StaticPassword == [kind |-> "static", id |-> 0]
Token(n) == [kind |-> "token", id |-> n]

\* --------------------------------------------------------- a caller's call
\* pc: the await the caller is suspended at ("idle": not in a call).
\* stage: 1 up to the first attempt of the statement, 2 in the catch block.
\* cur/stale: the pool the awaited request went to, and who had called end()
\* on it before the request was issued ("none", "close", "rebuild").
\* bound0: this.pool was bound when the current init() began.  err1: errorMsg
\* of the catch block.  The rest counts what the call has done so far
\* (failures: rejected requests other than end()), ec* within its current
Idle ==
  [pc |-> "idle", op |-> "none", stage |-> 0, cur |-> Null, stale |-> "none",
   bound0 |-> FALSE, err1 |-> "", attempts |-> 0, rebuilds |-> 0, failures |-> 0,
   ecProbes |-> 0, ecEnds |-> 0, ecSigs |-> 0, ecCreates |-> 0]

\* No call returned in the last step.
None == [c |-> 0, status |-> "none", message |-> NoMessage, t |-> Idle]

\* The adapter as one caller's step sees it, with that caller's own locals.
St(c) ==
  [c |-> c, pool |-> pool, pools |-> pools, nTokens |-> nTokens,
   sigInvoked |-> sigInvoked, closeDone |-> closeDone, t |-> task[c],
   out |-> None, log |-> Null]

Apply(c, s) ==
  /\ pool' = s.pool
  /\ pools' = s.pools
  /\ nTokens' = s.nTokens
  /\ sigInvoked' = s.sigInvoked
  /\ closeDone' = s.closeDone
  /\ task' = [task EXCEPT ![c] = s.t]
  /\ returned' = s.out
  /\ logged' = s.log
  /\ UNCHANGED <<awsIamAuth, awsRegion, config>>

\* The call returns normally to its caller: its locals are gone, the caller
\* holds the outcome.
Return(s) ==
  [s EXCEPT !.t = Idle,
            !.out = [c |-> s.c, status |-> "ok", message |-> NoMessage, t |-> s.t]]

\* The call rejects with an Error carrying `msg`.
Throw(s, msg) ==
  [s EXCEPT !.t = Idle,
            !.out = [c |-> s.c, status |-> "error", message |-> msg, t |-> s.t]]

\* console.error('[ERROR] Error closing old pool: ...') (lines 165-167).
ErrorClosingOldPool(s) == [s EXCEPT !.log = s.c]

\* An awaited request was rejected, or a synchronous call threw.
Failed(s) == [s EXCEPT !.t.failures = @ + 1]

\* --------------------------------------------------------------- init()
\* The outer catch of init (lines 135-142): every failure of init is rethrown
\* as "Failed to connect to MySQL...: <message>".
InitError(msg) ==
  IF awsIamAuth
    THEN <<"Failed to connect to MySQL with AWS IAM authentication: ">> \o msg
           \o <<". Please verify your AWS credentials, IAM permissions, and RDS configuration.">>
    ELSE <<"Failed to connect to MySQL: ">> \o msg

\* The inner catch of init (lines 124-127) around token generation and createPool.
AwsAuthError(msg) == InitError(<<"AWS IAM authentication failed: ">> \o msg)

\* Mutant of AwsConfig: the token is dropped, the pool gets the static password.
AwsConfigStatic(cfg, authToken) == cfg

\* const awsConfig = { ...this.config, password: authToken }  (lines 118-121)
AwsConfig(cfg, authToken) == [cfg EXCEPT !.password = authToken]

\* mysql.createPool(cfg): a fresh pool holding cfg's password.  end: who has
\* called end() on the pool: "none", "close" (only close()), or "rebuild"
\* (the catch block of ensureConnection, whoever else did).
NewPool(cfg) == [end |-> "none", password |-> cfg.password]

\* pool.end() is called on pools[p] by `who`.
EndCalled(ps, p, who) ==
  [ps EXCEPT ![p].end = IF who = "rebuild" \/ @ = "rebuild" THEN "rebuild" ELSE who]

\* this.pool = mysql.createPool(cfg); await this.pool.query('SELECT 1')
\* (lines 123/129 and 133).  createPool either returns a pool, which is bound to
\* this.pool and probed at once, or throws, which leaves this.pool as it was.
createPool(s, cfg, wrap) ==
  IF Len(s.pools) < MaxPools
    THEN {[s EXCEPT !.pools = Append(@, NewPool(cfg)),
                    !.pool = Len(s.pools) + 1,
                    !.t.pc = "init_probe",
                    !.t.cur = Len(s.pools) + 1,
                    !.t.stale = "none",
                    !.t.ecCreates = @ + 1,
                    !.t.ecProbes = @ + 1]}
    ELSE {Throw(Failed(s), IF wrap THEN AwsAuthError(<<CreatePoolError>>)
                                   ELSE InitError(<<CreatePoolError>>))}

\* Mutant of generateAwsAuthToken: the region is not checked before signing.
generateAwsAuthTokenAnyRegion(s) ==
  IF config.user = ""
    THEN {Throw(s, AwsAuthError(<<"AWS username is required for IAM authentication">>))}
  ELSE {[s EXCEPT !.sigInvoked = TRUE,
                  !.t.pc = "init_token",
                  !.t.ecSigs = @ + 1]}

\* generateAwsAuthToken up to its await (lines 75-94): the two synchronous
\* checks, then the call of signer.getAuthToken().
generateAwsAuthToken(s) ==
  IF awsRegion = ""
    THEN {Throw(s, AwsAuthError(<<"AWS region is required for IAM authentication">>))}
  ELSE IF config.user = ""
    THEN {Throw(s, AwsAuthError(<<"AWS username is required for IAM authentication">>))}
  ELSE {[s EXCEPT !.sigInvoked = TRUE,
                  !.t.pc = "init_token",
                  !.t.ecSigs = @ + 1]}

\* Mutant of init: the IAM branch is taken whatever awsIamAuth says.
initAlwaysIam(s) ==
  generateAwsAuthToken([s EXCEPT !.t.bound0 = (s.pool # Null)])

\* init() up to its first await (lines 106-133).
init(s) ==
  LET i == [s EXCEPT !.t.bound0 = (s.pool # Null)]
  IN  IF awsIamAuth THEN generateAwsAuthToken(i)
                    ELSE createPool(i, config, FALSE)

\* ---------------------------------------------------- ensureConnection()
\* ensureConnection() up to its first await (lines 148-157).
ensureConnection(s) ==
  LET e == [s EXCEPT !.t.ecProbes = 0, !.t.ecEnds = 0,
                     !.t.ecSigs = 0, !.t.ecCreates = 0]
  IN  IF e.pool = Null
        THEN init(e)
        ELSE {[e EXCEPT !.t.pc = "ec_probe",
                        !.t.cur = e.pool,
                        !.t.stale = e.pools[e.pool].end,
                        !.t.ecProbes = @ + 1]}

\* The catch block of ensureConnection up to its await (lines 158-164):
\* this.pool.end() is called on whatever this.pool is now; on null the
\* TypeError is caught by the inner catch and the code runs on to line 169.
closeOldPool(s) ==
  LET r == [s EXCEPT !.t.rebuilds = @ + 1]
  IN  IF r.pool = Null
        THEN init(ErrorClosingOldPool(r))
        ELSE {[r EXCEPT !.pools = EndCalled(@, r.pool, "rebuild"),
                        !.t.pc = "ec_end",
                        !.t.cur = r.pool,
                        !.t.stale = "none",
                        !.t.ecEnds = @ + 1]}

\* ------------------------------------------------------ all / run / exec
Queries == {"all", "run", "exec"}

\* The prefix of the Error thrown at lines 194, 222 and 245.
QueryErrorPrefix(op) ==
  IF op = "exec" THEN "MySQL batch error: " ELSE "MySQL query error: "

\* Mutant of IsConnectionError: every failure is taken for a lost connection.
IsConnectionErrorAlways(errorMsg) == TRUE

\* errorMsg.includes('closed') || errorMsg.includes('PROTOCOL_CONNECTION_LOST')
IsConnectionError(errorMsg) ==
  \/ Includes(errorMsg, "closed")
  \/ Includes(errorMsg, "PROTOCOL_CONNECTION_LOST")

\* Mutant of catchQuery: the retry is sent without ensureConnection() first.
catchQueryNoRepair(s, errorMsg) ==
  LET e == [s EXCEPT !.t.err1 = errorMsg]
  IN  IF IsConnectionError(errorMsg)
        THEN IF e.pool = Null
               THEN {Throw(e, <<NullDeref>>)}
               ELSE {[e EXCEPT !.t.stage = 2,
                               !.t.pc = "retry",
                               !.t.cur = e.pool,
                               !.t.stale = e.pools[e.pool].end,
                               !.t.attempts = @ + 1]}
        ELSE {Throw(e, <<QueryErrorPrefix(e.t.op), errorMsg>>)}

\* The catch block of all/run/exec up to its await (lines 183-194).
catchQuery(s, errorMsg) ==
  LET e == [s EXCEPT !.t.err1 = errorMsg]
  IN  IF IsConnectionError(errorMsg)
        THEN ensureConnection([e EXCEPT !.t.stage = 2])
        ELSE {Throw(e, <<QueryErrorPrefix(e.t.op), errorMsg>>)}

\* The statement after `await this.ensureConnection()`: this.pool!.execute(...)
\* (lines 181, 190; 205, 216; 233, 241).  On a null this.pool the TypeError is
\* thrown inside the try at the first attempt and out of the catch at the retry.
sendStatement(s) ==
  IF s.pool = Null
    THEN IF s.t.stage = 1 THEN catchQuery(s, NullDeref)
                          ELSE {Throw(s, <<NullDeref>>)}
    ELSE {[s EXCEPT !.t.pc = IF s.t.stage = 1 THEN "execute" ELSE "retry",
                    !.t.cur = s.pool,
                    !.t.stale = s.pools[s.pool].end,
                    !.t.attempts = @ + 1]}

\* What follows a successful init(): the public init() returns, while inside
\* all/run/exec ensureConnection returns and the statement is sent.
afterInit(s) ==
  IF s.t.op = "init" THEN {Return(s)} ELSE sendStatement(s)

\* ---------------------------------------------------------------- close()
\* close() up to its await (lines 252-254).
close(s) ==
  IF s.pool # Null
    THEN {[s EXCEPT !.pools = EndCalled(@, s.pool, "close"),
                    !.t.pc = "close_end",
                    !.t.cur = s.pool,
                    !.t.stale = "none"]}
    ELSE {Return([s EXCEPT !.closeDone = TRUE])}

\* ------------------------------------------------------------ environment
\* How an awaited pool.query / pool.execute settles: "ok", or a rejection
\* message.  A pool whose end() had been called before the request was issued
\* rejects it (stale is kept for query and execute requests only).
Outcomes(s, errors) ==
  IF s.t.stale # "none" THEN {"Pool is closed."} ELSE {"ok"} \cup errors

\* How an awaited pool.end() settles.
EndOutcomes == {"ok"} \cup DriverErrors

\* A call starts when its caller is not inside another call.
CanStart(c) == task[c].pc = "idle"

\* The caller's locals at the start of a call of `op`.
Begin(c, op) ==
  [St(c) EXCEPT !.t = [Idle EXCEPT !.op = op,
                                   !.stage = IF op \in Queries THEN 1 ELSE 0]]

\* ---------------------------------------------------------------- actions
\* A caller calls init(): runs to init's first await.
CallInit(c) ==
  /\ CanStart(c)
  /\ \E s \in init(Begin(c, "init")) : Apply(c, s)

\* A caller calls all(query, params): runs to ensureConnection's first await.
CallAll(c) ==
  /\ CanStart(c)
  /\ \E s \in ensureConnection(Begin(c, "all")) : Apply(c, s)

\* A caller calls run(query, params).
CallRun(c) ==
  /\ CanStart(c)
  /\ \E s \in ensureConnection(Begin(c, "run")) : Apply(c, s)

\* A caller calls exec(query).
CallExec(c) ==
  /\ CanStart(c)
  /\ \E s \in ensureConnection(Begin(c, "exec")) : Apply(c, s)

\* A caller calls close(): runs to the await of pool.end(), or returns.
CallClose(c) ==
  /\ CanStart(c)
  /\ \E s \in close(Begin(c, "close")) : Apply(c, s)

\* signer.getAuthToken() settles (lines 94-99, then 115-127 and 133).
tokenReturned(s, ok) ==
  IF ok
    THEN createPool([s EXCEPT !.nTokens = @ + 1],
                    AwsConfig(config, Token(s.nTokens + 1)), TRUE)
    ELSE {Throw(Failed(s),
                AwsAuthError(<<"AWS IAM authentication failed: ", SignerError,
                     ". Please check your AWS credentials and IAM permissions.">>))}

SignerReturns(c) ==
  /\ task[c].pc = "init_token"
  /\ \E ok \in {nTokens < MaxTokens, FALSE} :
       \E s \in tokenReturned(St(c), ok) : Apply(c, s)

\* Mutant of initProbed: a rejected probe is ignored and init() goes on.
initProbedLenient(s, outcome) ==
  afterInit(IF outcome = "ok" THEN s ELSE Failed(s))

\* The probe of init (line 133) settles.
initProbed(s, outcome) ==
  IF outcome = "ok" THEN afterInit(s)
                    ELSE {Throw(Failed(s), InitError(<<outcome>>))}

InitProbeReturns(c) ==
  /\ task[c].pc = "init_probe"
  /\ \E o \in Outcomes(St(c), DriverErrors) :
       \E s \in initProbed(St(c), o) : Apply(c, s)

\* Mutant of probed: the old pool is ended even though its probe succeeded.
probedEndsPool(s, outcome) ==
  IF outcome = "ok"
    THEN sendStatement([s EXCEPT !.pools = EndCalled(@, s.t.cur, "rebuild"),
                                 !.t.ecEnds = @ + 1])
    ELSE closeOldPool(Failed(s))

\* The probe of ensureConnection (line 157) settles.
probed(s, outcome) ==
  IF outcome = "ok" THEN sendStatement(s) ELSE closeOldPool(Failed(s))

ProbeReturns(c) ==
  /\ task[c].pc = "ec_probe"
  /\ \E o \in Outcomes(St(c), DriverErrors) :
       \E s \in probed(St(c), o) : Apply(c, s)

\* Mutant of oldPoolEnded: a rejection of end() is rethrown, not just logged.
oldPoolEndedStrict(s, outcome) ==
  IF outcome = "ok" THEN init([s EXCEPT !.pool = Null])
                    ELSE {Throw(s, <<outcome>>)}

\* Mutant of oldPoolEnded: this.pool is cleared only when end() resolved.
oldPoolEndedKeepsHandle(s, outcome) ==
  IF outcome = "ok" THEN init([s EXCEPT !.pool = Null])
                    ELSE init(ErrorClosingOldPool(s))

\* this.pool.end() of ensureConnection (line 164) settles; a rejection is only
\* logged.  Then this.pool = null and init() (lines 169-170).
oldPoolEnded(s, outcome) ==
  init([(IF outcome = "ok" THEN s ELSE ErrorClosingOldPool(s)) EXCEPT !.pool = Null])

EndReturns(c) ==
  /\ task[c].pc = "ec_end"
  /\ \E o \in EndOutcomes :
       \E s \in oldPoolEnded(St(c), o) : Apply(c, s)

\* The first attempt of the statement (lines 181, 205, 233) settles.
executed(s, outcome) ==
  IF outcome = "ok" THEN {Return(s)} ELSE catchQuery(Failed(s), outcome)

ExecuteReturns(c) ==
  /\ task[c].pc = "execute"
  /\ \E o \in Outcomes(St(c), StatementErrors) :
       \E s \in executed(St(c), o) : Apply(c, s)

\* Mutant of retried: a rejected retry is swallowed and the call never settles.
retriedSwallowed(s, outcome) ==
  IF outcome = "ok" THEN {Return(s)} ELSE {[Failed(s) EXCEPT !.t.pc = "hung"]}

\* The retry of the statement (lines 190, 216, 241) settles: it runs inside the
\* catch block, so its rejection leaves the method as it is.
retried(s, outcome) ==
  IF outcome = "ok" THEN {Return(s)} ELSE {Throw(Failed(s), <<outcome>>)}

RetryReturns(c) ==
  /\ task[c].pc = "retry"
  /\ \E o \in Outcomes(St(c), StatementErrors) :
       \E s \in retried(St(c), o) : Apply(c, s)

\* this.pool.end() of close (line 254) settles; on success this.pool = null.
closeEnded(s, outcome) ==
  IF outcome = "ok"
    THEN {Return([s EXCEPT !.pool = Null, !.closeDone = TRUE])}
    ELSE {Throw(s, <<outcome>>)}

CloseEndReturns(c) ==
  /\ task[c].pc = "close_end"
  /\ \E o \in EndOutcomes :
       \E s \in closeEnded(St(c), o) : Apply(c, s)

\* ----------------------------------------------------------- specification
\* The connectionInfo the adapter was constructed with: password
\* authentication (with and without an awsRegion option, which it never
\* reads), and IAM authentication with and without region and user.
Configurations ==
  {<<FALSE, "", "iam_user">>,
   <<FALSE, "us-east-1", "iam_user">>,
   <<TRUE, "us-east-1", "iam_user">>,
   <<TRUE, "", "iam_user">>,
   <<TRUE, "us-east-1", "">>}

Init ==
  /\ \E info \in Configurations :
       /\ awsIamAuth = info[1]
       /\ awsRegion = info[2]
       /\ config = [user |-> info[3], password |-> StaticPassword]
  /\ pool = Null
  /\ pools = << >>
  /\ nTokens = 0
  /\ sigInvoked = FALSE
  /\ closeDone = FALSE
  /\ task = [c \in Callers |-> Idle]
  /\ returned = None
  /\ logged = Null

Next ==
  \E c \in Callers :
    \/ CallInit(c)
    \/ CallAll(c)
    \/ CallRun(c)
    \/ CallExec(c)
    \/ CallClose(c)
    \/ SignerReturns(c)
    \/ InitProbeReturns(c)
    \/ ProbeReturns(c)
    \/ EndReturns(c)
    \/ ExecuteReturns(c)
    \/ RetryReturns(c)
    \/ CloseEndReturns(c)

Spec == Init /\ [][Next]_vars

\* One caller alone: every call runs to its end before the next one starts.
SoloNext ==
  \/ CallInit(1)
  \/ CallAll(1)
  \/ CallRun(1)
  \/ CallExec(1)
  \/ CallClose(1)
  \/ SignerReturns(1)
  \/ InitProbeReturns(1)
  \/ ProbeReturns(1)
  \/ EndReturns(1)
  \/ ExecuteReturns(1)
  \/ RetryReturns(1)
  \/ CloseEndReturns(1)

SpecSolo == Init /\ [][SoloNext]_vars

\* Concurrent callers of all / run / exec only: nobody calls init() or close().
QueryNext ==
  \E c \in Callers :
    \/ CallAll(c)
    \/ CallRun(c)
    \/ CallExec(c)
    \/ SignerReturns(c)
    \/ InitProbeReturns(c)
    \/ ProbeReturns(c)
    \/ EndReturns(c)
    \/ ExecuteReturns(c)
    \/ RetryReturns(c)

SpecQueries == Init /\ [][QueryNext]_vars

\* The request caller c awaits settles and c's continuation runs.
Settles(c) ==
  \/ SignerReturns(c)
  \/ InitProbeReturns(c)
  \/ ProbeReturns(c)
  \/ EndReturns(c)
  \/ ExecuteReturns(c)
  \/ RetryReturns(c)
  \/ CloseEndReturns(c)

\* Concurrent callers of all / run / exec, where every awaited request of the
\* driver and of the signer settles and the event loop runs the continuation
\* of every settled request.
SpecQueriesFair ==
  Init /\ [][QueryNext]_vars /\ \A c \in Callers : WF_vars(Settles(c))

\* ------------------------------------------------------------------ claims
\* The messages init() rejects with begin with one of these.
ConnectPrefixes ==
  {"Failed to connect to MySQL: ",
   "Failed to connect to MySQL with AWS IAM authentication: "}

\* The caller's call is between the failed probe of ensureConnection and the
\* end of the init() that follows it: a rebuild is in flight.
InRebuild(t) ==
  \/ t.pc = "ec_end"
  \/ t.pc = "init_token" /\ t.ecProbes = 1
  \/ t.pc = "init_probe" /\ t.ecProbes = 2

\* Caller c begins a call of all, run or exec in this step.
StartsQuery(c) ==
  /\ task[c].pc = "idle"
  /\ \/ task'[c].pc # "idle" /\ task'[c].op \in Queries
     \/ returned'.c = c /\ returned'.t.op \in Queries

\* C1: once close() has returned, every later call of all, run or exec fails at
\* once with an error (ClosedAdapterError) and touches neither the signer nor a
\* pool: no token is requested, no pool constructed, no probe or statement sent.
ClosedIsTerminal ==
  [][\A c \in Callers :
       (closeDone /\ StartsQuery(c))
         => /\ returned'.c = c
            /\ returned'.status = "error"
            /\ pool' = pool
            /\ pools' = pools
            /\ nTokens' = nTokens
            /\ sigInvoked' = sigInvoked]_vars

\* C2: at most one rebuild is in flight at any time.
SingleFlightRebuild ==
  Cardinality({c \in Callers : InRebuild(task[c])}) <= 1

\* C3: every pool that has been constructed and on which end() has not been
\* called is the pool this.pool is bound to.
NoPoolLeaked ==
  \A p \in 1..Len(pools) : pools[p].end = "none" => pool = p

\* C4: no statement, first attempt or retry, is sent to a pool on which a
\* rebuild has already called end().
NoStatementToEndedPool ==
  \A c \in Callers :
    task[c].pc \in {"execute", "retry"} => task[c].stale # "rebuild"

\* init() rejected in the last step; it had begun with this.pool null (on an
\* uninitialized adapter, or as the last step of a rebuild).
InitFailedFromNull ==
  /\ returned.status = "error"
  /\ Head(returned.message) \in ConnectPrefixes
  /\ ~returned.t.bound0

\* C5: when init() fails, this.pool is null afterwards and no constructed pool
\* is left without end() having been called on it.
FailedInitLeavesNothing ==
  InitFailedFromNull =>
    /\ pool = Null
    /\ \A p \in 1..Len(pools) : pools[p].end # "none"

\* The transient-disconnect signatures: the message contains 'closed' or
\* 'PROTOCOL_CONNECTION_LOST'.
TransientDisconnect(msg) ==
  LET m == Chars(msg)
  IN  \E sig \in {<<"c", "l", "o", "s", "e", "d">>, Chars("PROTOCOL_CONNECTION_LOST")} :
        \E i \in 0..(Len(m) - Len(sig)) :
          \A k \in 1..Len(sig) : m[i + k] = sig[k]

\* C6: a call of all, run or exec sends its statement at most twice; it is in
\* its second round (repair, then retry) only if the first attempt failed with
\* a message containing 'closed' or 'PROTOCOL_CONNECTION_LOST'; a first failure
\* with any other message ends the call at once, with no repair and no retry.
RetryBound ==
  /\ \A c \in Callers :
       LET t == task[c]
       IN  /\ t.attempts <= 2
           /\ t.pc = "retry" => t.stage = 2 /\ t.attempts = 2
           /\ t.stage = 2 => t.attempts = 1 + (IF t.pc = "retry" THEN 1 ELSE 0)
           /\ t.stage = 2 => TransientDisconnect(t.err1)
  /\ returned.t.attempts <= 2
  /\ returned.t.stage = 2 => TransientDisconnect(returned.t.err1)
  /\ (returned.t.err1 # "" /\ ~TransientDisconnect(returned.t.err1))
       => /\ returned.status = "error"
          /\ returned.t.stage = 1
          /\ returned.t.attempts <= 1

\* C6 witness: a retry was sent after a lost connection, it failed as well, and
\* the call ended there.
RetryBoundWitness ==
  /\ returned.status = "error"
  /\ returned.t.pc = "retry"
  /\ returned.t.attempts = 2
  /\ returned.t.err1 = "PROTOCOL_CONNECTION_LOST"

\* C7: every failure of the statement that reaches the caller of all, run or
\* exec is the method's QueryError wrapping the driver's message.
QueryFailureIsQueryError ==
  (/\ returned.status = "error"
   /\ returned.t.op \in Queries
   /\ Head(returned.message) \notin ConnectPrefixes)
    => /\ Len(returned.message) = 2
       /\ returned.message[1] = QueryErrorPrefix(returned.t.op)
       /\ returned.message[2] \in StatementErrors \cup {NullDeref}

\* A call of all has returned whose only rejected request was the one probe of
\* ensureConnection that made it rebuild: the old pool's probe failed once, and
\* the replacement pool answered everything.
RepairedOnce ==
  /\ returned.status # "none"
  /\ returned.t.op = "all"
  /\ returned.t.rebuilds = 1
  /\ returned.t.failures = 1

\* C8 as stated: such a call succeeds after exactly one rebuild and one retry.
RepairWithOneRetry ==
  RepairedOnce =>
    /\ returned.status = "ok"
    /\ returned.t.rebuilds = 1
    /\ returned.t.stage = 2
    /\ returned.t.attempts = 2

\* C8 amended: such a call succeeds after exactly one rebuild and no retry: the
\* statement is sent once, to the replacement pool.
RepairWithoutRetry ==
  RepairedOnce =>
    /\ returned.status = "ok"
    /\ returned.t.rebuilds = 1
    /\ returned.t.stage = 1
    /\ returned.t.attempts = 1
    /\ returned.t.cur = pool
    /\ returned.t.ecCreates = 1

\* C8 witness: a call of all that rebuilt once has returned its rows.
RepairWitness ==
  /\ RepairedOnce
  /\ returned.status = "ok"
  /\ Len(pools) = 2
  /\ pools[1].end = "rebuild"

\* C9: when ensureConnection finds the pool bound and its probe succeeds (the
\* caller goes on to its statement in the step the probe settles), that call of
\* ensureConnection has sent exactly one probe, called end() on no pool, asked
\* for no token, constructed no pool, and left this.pool and every pool as
\* they were.
EnsureHealthyIdempotent ==
  [][\A c \in Callers :
       (task[c].pc = "ec_probe" /\ task'[c].pc \in {"execute", "retry"})
         => /\ task'[c].ecProbes = 1
            /\ task'[c].ecEnds = 0
            /\ task'[c].ecSigs = 0
            /\ task'[c].ecCreates = 0
            /\ task'[c].rebuilds = task[c].rebuilds
            /\ task'[c].cur = pool
            /\ pool' = pool
            /\ pools' = pools
            /\ nTokens' = nTokens]_vars

\* C9 witness: two successive calls of ensureConnection, both with a successful
\* probe of the bound pool: the caller is at its retry and nothing was rebuilt.
EnsureHealthyWitness ==
  \E c \in Callers :
    /\ task[c].pc = "retry"
    /\ task[c].rebuilds = 0
    /\ task[c].ecProbes = 1
    /\ task[c].ecCreates = 0
    /\ task[c].cur = pool

\* C10: with awsIamAuth, every pool was constructed with a token of the signer,
\* never the static password; no two pools share a token; and there are at
\* least as many tokens returned as pools constructed, later pools holding
\* later tokens.
FreshTokenPerPool ==
  awsIamAuth =>
    /\ Len(pools) <= nTokens
    /\ \A p \in 1..Len(pools) :
         /\ pools[p].password.kind = "token"
         /\ pools[p].password.id \in 1..nTokens
         /\ pools[p].password # config.password
         /\ \A q \in 1..Len(pools) :
              p < q => pools[p].password.id < pools[q].password.id

\* C10 witness: a rebuild under IAM authentication constructed the second pool
\* with the second token.
FreshTokenWitness ==
  /\ awsIamAuth
  /\ Len(pools) = 2
  /\ pools[1].end = "rebuild"
  /\ pools[2].password = Token(2)

\* The message of the Error thrown at line 77.
RegionRequired == "AWS region is required for IAM authentication"

\* C11: with awsIamAuth and no awsRegion, init() (called directly, or by
\* ensureConnection for all / run / exec) fails in the step it is called, with
\* the authentication error naming the missing region; signer.getAuthToken()
\* is never called, no pool is ever constructed, so none is probed, and no
\* caller is ever suspended at an await.
NoRegionFailsBeforeNetwork ==
  (awsIamAuth /\ awsRegion = "") =>
    /\ ~sigInvoked
    /\ nTokens = 0
    /\ pools = << >>
    /\ pool = Null
    /\ \A c \in Callers : task[c] = Idle
    /\ returned.t.op \in Queries \cup {"init"} =>
         /\ returned.status = "error"
         /\ returned.message =
              AwsAuthError(<<RegionRequired>>)
         /\ returned.t.ecSigs = 0
         /\ returned.t.ecCreates = 0
         /\ returned.t.ecProbes = 0
         /\ returned.t.attempts = 0

\* C11 witness: init() has just failed on an adapter with awsIamAuth and no
\* awsRegion.
NoRegionWitness ==
  /\ awsIamAuth
  /\ awsRegion = ""
  /\ returned.status = "error"
  /\ returned.t.op = "init"

\* C12: without awsIamAuth the signer is never used: getAuthToken() has not
\* been called, no token was returned, no caller awaits one, and every pool
\* holds the static password.
PasswordAuthNeverSigns ==
  ~awsIamAuth =>
    /\ ~sigInvoked
    /\ nTokens = 0
    /\ \A c \in Callers : task[c].pc # "init_token" /\ task[c].ecSigs = 0
    /\ returned.t.ecSigs = 0
    /\ \A p \in 1..Len(pools) : pools[p].password = StaticPassword

\* C12 witness: password authentication with a region configured; a probe of
\* ensureConnection failed, the pool was rebuilt, and close() has returned.
PasswordAuthWitness ==
  /\ ~awsIamAuth
  /\ awsRegion # ""
  /\ Len(pools) = 2
  /\ pools[1].end = "rebuild"
  /\ closeDone

\* Caller c sends its statement (first attempt or retry) in this step.
SendsStatement(c) ==
  /\ task'[c].pc \in {"execute", "retry"}
  /\ task'[c].pc # task[c].pc

\* C13: a statement is sent only while this.pool is bound and the adapter is
\* neither uninitialized nor closed.  The adapter is closed from the moment a
\* call of close() has returned; it is uninitialized while this.pool is null
\* and no close() has returned.
StatementOnlyWhileOpen ==
  [][\A c \in Callers :
       SendsStatement(c) => /\ pool # Null
                            /\ pool' # Null
                            /\ task'[c].cur = pool'
                            /\ ~closeDone]_vars

\* C14: when a call of init() returns normally, it has constructed one pool,
\* sent exactly one probe, to that pool, and the return happens in the step
\* that probe resolves; no request of the call was rejected, so a pool whose
\* probe fails is not reported as initialized.
InitProbedOnce ==
  (returned.status = "ok" /\ returned.t.op = "init") =>
    /\ returned.t.pc = "init_probe"
    /\ returned.t.ecCreates = 1
    /\ returned.t.ecProbes = 1
    /\ returned.t.failures = 0
    /\ returned.t.cur \in 1..Len(pools)
    /\ returned.t.stale = "none"
    /\ awsIamAuth => returned.t.ecSigs = 1

\* C14 witness: init() has returned normally under IAM authentication, after
\* one token, one pool and one probe.
InitProbedWitness ==
  /\ returned.status = "ok"
  /\ returned.t.op = "init"
  /\ awsIamAuth
  /\ returned.t.ecProbes = 1

\* C15: every call of all, run or exec that is suspended at an await
\* eventually hands a result or an error to its caller, whatever the other
\* callers of all, run and exec do meanwhile.
EveryQueryReturns ==
  \A c \in Callers :
    (task[c].op \in Queries)
      ~> (/\ returned.c = c
          /\ returned.status \in {"ok", "error"}
          /\ returned.t.op \in Queries)

\* C15 witness: a call that went through both rounds (a failed first attempt,
\* a rebuild, a retry) while the other caller was inside a call has returned.
EveryQueryReturnsWitness ==
  /\ returned.status \in {"ok", "error"}
  /\ returned.t.op \in Queries
  /\ returned.t.pc = "retry"
  /\ returned.t.rebuilds = 1
  /\ \E d \in Callers : d # returned.c /\ task[d].pc # "idle"

\* C16: this.pool is never bound to a pool on which end() has been called, and
\* while this.pool is null no caller has a probe or a statement in flight.
NoHalfClosedHandle ==
  /\ pool # Null => pools[pool].end = "none"
  /\ pool = Null =>
       \A c \in Callers :
         task[c].pc \notin {"ec_probe", "init_probe", "execute", "retry"}

\* C17: the step in which end() of the catch block of ensureConnection
\* settles, resolved or rejected, runs init() with this.pool null: the caller
\* goes on to await the token (this.pool null) or the probe of a pool just
\* constructed and bound, or init() fails at once with its connection error and
\* this.pool null; the rejection of end() itself never reaches the caller.
RepairIgnoresReleaseFailure ==
  [][\A c \in Callers :
       (task[c].pc = "ec_end" /\ task'[c].pc # "ec_end")
         => LET t == IF returned'.c = c THEN returned'.t ELSE task'[c]
            IN  /\ ~t.bound0
                /\ t.ecEnds = 1
                /\ \/ /\ task'[c].pc = "init_token"
                      /\ pool' = Null
                   \/ /\ task'[c].pc = "init_probe"
                      /\ Len(pools') = Len(pools) + 1
                      /\ pool' = Len(pools')
                      /\ t.cur = pool'
                   \/ /\ returned'.c = c
                      /\ returned'.status = "error"
                      /\ Head(returned'.message) \in ConnectPrefixes
                      /\ pool' = Null]_vars

\* C17 witness: end() of the stale pool was rejected, and the caller is at the
\* probe of the replacement pool, which this.pool is bound to.
RepairIgnoresReleaseWitness ==
  \E c \in Callers :
    /\ task[c].pc = "init_probe"
    /\ logged = c
    /\ task[c].ecEnds = 1
    /\ ~task[c].bound0
    /\ task[c].cur = pool
    /\ pools[pool].end = "none"

\* C18: a statement (first attempt or retry) is sent only in the step in which
\* the last await of the caller's own ensureConnection() resolves: the probe
\* of the bound pool, or the probe of init; the first attempt is sent in stage
\* 1 and the retry in stage 2, once each.  When ensureConnection() fails (with
\* the connection error of init), that error ends the call and no statement
\* is sent after it.
StatementFollowsEnsure ==
  [][\A c \in Callers :
       /\ SendsStatement(c)
            => /\ task[c].pc \in {"ec_probe", "init_probe"}
               /\ task'[c].failures = task[c].failures
               /\ task'[c].attempts = task[c].attempts + 1
               /\ task'[c].cur = pool'
               /\ task'[c].pc = "execute" => task'[c].stage = 1 /\ task'[c].attempts = 1
               /\ task'[c].pc = "retry" => task'[c].stage = 2 /\ task'[c].attempts = 2
       /\ (/\ returned'.c = c
           /\ returned'.t.op \in Queries
           /\ returned'.status = "error"
           /\ Head(returned'.message) \in ConnectPrefixes)
            => /\ returned'.t.attempts = task[c].attempts
               /\ returned'.t.attempts = returned'.t.stage - 1
               /\ task'[c] = Idle]_vars

\* C18 witness: a retry was sent right after an ensureConnection() that
\* rebuilt the pool.
StatementFollowsEnsureWitness ==
  \E c \in Callers :
    /\ task[c].pc = "retry"
    /\ task[c].ecEnds = 1
    /\ task[c].ecCreates = 1
    /\ task[c].ecProbes = 2

\* C19: when a call of close() has ended, normally or with the error of
\* end(), this.pool is null.
ClosedHandleIsNull ==
  (returned.t.op = "close" /\ returned.status \in {"ok", "error"})
    => pool = Null

\* The pools constructed on which end() has not been called.
LivePools == {p \in 1..Len(pools) : pools[p].end = "none"}

\* C20: with one caller, whose calls of init() follow one another, at most one
\* pool is live at any time; a pool constructed by init() while this.pool was
\* bound replaces a pool on which end() has been called.
InitKeepsOnePool ==
  /\ Cardinality(LivePools) <= 1
  /\ \A c \in Callers :
       (task[c].op = "init" /\ task[c].bound0 /\ task[c].pc = "init_probe")
         => \A p \in 1..Len(pools) : p # task[c].cur => pools[p].end # "none"

====
